---------------------------- MODULE Spec2Model ----------------------------
(***************************************************************************)
(* Raw-socket UDP transport of dhcpv4/nclient4 (conn_unix.go).             *)
(*                                                                         *)
(* A connection owns a raw packet socket and a bound address.  ReadFrom    *)
(* loops over the frames the socket delivers, parses the IPv4 and UDP      *)
(* headers, drops what is not addressed to the bound address and returns   *)
(* the payload of the first frame that is.  WriteTo frames a payload and   *)
(* hands it to the socket, to the broadcast MAC or to the MAC getHwAddr    *)
(* resolves.  Frames are byte sequences; the socket, the neighbour table,   *)
(* the route table and the ARP client are the environment, and each of     *)
(* their calls returns a nondeterministically chosen result.               *)
(***************************************************************************)
EXTENDS Integers, Sequences, FiniteSets, TLC

VARIABLES
    typ,        \* the UDPConnType NewRawUDPConn was given
    boundAddr,  \* the connection's boundAddr
    pc,         \* where the connection's current call stands
    b,          \* ReadFrom: the caller's buffer
    pkt,        \* ReadFrom: pkt[:n], the bytes of the last socket read
    delivered,  \* ReadFrom: the results of this call's socket reads, in order
    rret,       \* ReadFrom: the (n, addr, err) returned
    wb,         \* WriteTo: the payload
    waddr,      \* WriteTo: the destination
    dstMac,     \* WriteTo: the link address the frame goes to
    routes,     \* arpResolve: the (routes, err) RouteGet returned
    herr,       \* WriteTo: the error getHwAddr returned
    calls,      \* WriteTo: the dependency calls made so far, in order
    sock,       \* WriteTo: the (packet, link address) writes handed to the socket
    wret,       \* WriteTo: the (n, err) returned
    neigh,      \* getHwAddr: the (neighList, err) NeighListExecute returned
    arp,        \* arpResolve: the (mac, err) the ARP client's Resolve returned
    prev,       \* history: the WriteTo call just before the current call
    probe       \* udpMatch: the address it is applied to, and its result

rvars == <<b, pkt, delivered, rret>>
wvars == <<wb, waddr, dstMac, routes, herr, calls, sock, wret, neigh, arp>>
vars == <<typ, boundAddr, pc, b, pkt, delivered, rret,
          wb, waddr, dstMac, routes, herr, calls, sock, wret, neigh, arp,
          prev, probe>>

-----------------------------------------------------------------------------
(* Bounds of the model. *)

\* socket reads one ReadFrom call may perform
MaxReads == 2

\* largest caller buffer handed to ReadFrom
MaxBuf == 2

-----------------------------------------------------------------------------
(* Program constants. *)

UDPBroadcast == 0
UDPUnicast == 1

ipv4MinimumSize == 20
ipv4MaximumHeaderSize == 60
udpMinimumSize == 8
udpProtocolNumber == 17

\* byte offsets of the IPv4 header fields the accessors read
versIHL == 0
totalLen == 2
protocol == 9
srcAddr == 12
dstAddr == 16
ipv4AddressSize == 4

\* byte offsets of the UDP header fields
udpSrcPort == 0
udpDstPort == 2

-----------------------------------------------------------------------------
(* Byte sequences and Go slices. *)

Min(x, y) == IF x <= y THEN x ELSE y

\* s[:k] and s[k:] of a byte sequence (0 <= k <= Len(s))
Take(s, k) == SubSeq(s, 1, k)
Drop(s, k) == SubSeq(s, k + 1, Len(s))

\* s[i:j], Go's half-open slice with 0-based bounds
Slice(s, i, j) == SubSeq(s, i + 1, j)

Zeros(k) == [i \in 1..k |-> 0]

\* binary.BigEndian.Uint16 of the two bytes at 0-based offset off
Uint16At(s, off) == s[off + 1] * 256 + s[off + 2]

\* the two big-endian bytes of a 16-bit value
PutUint16(v) == <<(v % 65536) \div 256, v % 256>>

\* copy(dst, src): the bytes of dst after the copy; the count is CopyCount
CopyCount(dst, src) == Min(Len(dst), Len(src))
Copy(dst, src) == Take(src, CopyCount(dst, src)) \o Drop(dst, CopyCount(dst, src))

\* uio Buffer.Has
Has(data, n) == Len(data) >= n

-----------------------------------------------------------------------------
(* Addresses. net.IP is a byte slice: nil (empty), 4 bytes or 16 bytes. *)

NilIP == <<>>

v4InV6Prefix == <<0, 0, 0, 0, 0, 0, 0, 0, 0, 0, 255, 255>>

\* net.IP.Equal
IPEqual(ip, x) ==
    IF Len(ip) = Len(x) THEN ip = x
    ELSE IF Len(ip) = 4 /\ Len(x) = 16 THEN Take(x, 12) = v4InV6Prefix /\ ip = Drop(x, 12)
    ELSE IF Len(ip) = 16 /\ Len(x) = 4 THEN Take(ip, 12) = v4InV6Prefix /\ Drop(ip, 12) = x
    ELSE FALSE

\* a *net.UDPAddr: nil (present = FALSE) or an address
NoAddr == [present |-> FALSE, IP |-> NilIP, Port |-> 0]
UDPAddr(ip, port) == [present |-> TRUE, IP |-> ip, Port |-> port]

\* udpMatch without the comparison of the ports
udpMatchAnyPort(addr, bound) ==
    IF ~bound.present THEN TRUE
    ELSE IF bound.IP # NilIP /\ ~IPEqual(bound.IP, addr.IP) THEN FALSE
    ELSE TRUE

\* udpMatch without the nil test of line 101: a nil pattern IP is compared too
udpMatchNoWildcard(addr, bound) ==
    IF ~bound.present THEN TRUE
    ELSE IF ~IPEqual(bound.IP, addr.IP) THEN FALSE
    ELSE bound.Port = addr.Port

\* lines 97-105
udpMatch(addr, bound) ==
    IF ~bound.present THEN TRUE
    ELSE IF bound.IP # NilIP /\ ~IPEqual(bound.IP, addr.IP) THEN FALSE
    ELSE bound.Port = addr.Port

-----------------------------------------------------------------------------
(* Header accessors. An ipv4 or udp value is a Go slice: len bytes long,   *)
(* over the array arr it was cut from. Indexing b[i] needs i < len;        *)
(* slicing b[i:j] needs only j <= cap, and every slice here is cut at      *)
(* offset 0 of the packet, whose first 20 bytes are present.               *)

ipv4(data, n) == [len |-> n, arr |-> data]

headerLength(h) == ((h.arr[versIHL + 1]) % 16) * 4

\* b[protocol] is in range
protocolInRange(h) == protocol < h.len

transportProtocol(h) == h.arr[protocol + 1]

totalLength(h) == Uint16At(h.arr, totalLen)

\* uint16 subtraction: wraps modulo 2^16
payloadLength(h) == (totalLength(h) + 65536 - headerLength(h)) % 65536

sourceAddress(h) == Slice(h.arr, srcAddr, srcAddr + ipv4AddressSize)

destinationAddress(h) == Slice(h.arr, dstAddr, dstAddr + ipv4AddressSize)

sourcePort(u) == Uint16At(u, udpSrcPort)

destinationPort(u) == Uint16At(u, udpDstPort)

-----------------------------------------------------------------------------
(* One pass of ReadFrom's loop body over the n bytes p the socket returned  *)
(* (n > 0, no error): what the pass ends in. "continue" goes back to the   *)
(* socket read, "return" ends ReadFrom with the payload data and the       *)
(* sender addr, "panic" is a Go run-time panic (index or slice bound out   *)
(* of range); at names the statement that ended the pass.                  *)

Continue(at) == [kind |-> "continue", at |-> at, data |-> <<>>, addr |-> NoAddr]
Panic(at) == [kind |-> "panic", at |-> at, data |-> <<>>, addr |-> NoAddr]
Return(data, addr) == [kind |-> "return", at |-> "copy", data |-> data, addr |-> addr]

\* Lexer.Consume(n) of a buffer holding data, n >= 0: the slice returned
\* (nil when the buffer holds fewer than n bytes)
Consume(data, n) == IF Has(data, n) THEN Take(data, n) ELSE <<>>

\* the buffer after Consume(n): untouched when it holds fewer than n bytes
AfterConsume(data, n) == IF Has(data, n) THEN Drop(data, n) ELSE data

\* the payload length taken without the UDP header subtracted
PayloadWithUdpHeader(ipHdr, udpHdr, rest) ==
    LET dhcpLen == payloadLength(ipHdr)
    IN  IF dhcpLen < 0 THEN Panic("consume") ELSE
        Return(Consume(rest, dhcpLen),
               UDPAddr(sourceAddress(ipHdr), sourcePort(udpHdr)))

\* lines 161-164: the payload handed to copy
Payload(ipHdr, udpHdr, rest) ==
    LET dhcpLen == payloadLength(ipHdr) - udpMinimumSize
    IN  IF dhcpLen < 0 THEN Panic("consume") ELSE
        Return(Consume(rest, dhcpLen),
               UDPAddr(sourceAddress(ipHdr), sourcePort(udpHdr)))

\* lines 148-164: the UDP header, the match against the bound address
MatchFrame(ipHdr, buf, bound) ==
    LET udpHdr == Consume(buf, udpMinimumSize)
        rest   == AfterConsume(buf, udpMinimumSize)
        addr   == UDPAddr(destinationAddress(ipHdr), destinationPort(udpHdr))
    IN  IF ~udpMatch(addr, bound) THEN Continue("match") ELSE
        Payload(ipHdr, udpHdr, rest)

\* the loop body without the check of line 134: the header accessors then
\* index a header that Consume could not supply
ReadFromFrameNoHdrCheck(p, bound) ==
    IF ~Has(p, ipv4MinimumSize) THEN Continue("short") ELSE
    LET hl == headerLength(ipv4(p, Len(p))) IN
    IF ~Has(p, hl) THEN Panic("protocol") ELSE
    LET ipHdr == ipv4(p, hl)
        buf   == AfterConsume(p, hl)
    IN  IF ~protocolInRange(ipHdr) THEN Panic("protocol") ELSE
        IF transportProtocol(ipHdr) # udpProtocolNumber THEN Continue("proto") ELSE
        IF ~Has(buf, udpMinimumSize) THEN Continue("udphdr") ELSE
        MatchFrame(ipHdr, buf, bound)

\* lines 124-164
ReadFromFrame(p, bound) ==
    IF ~Has(p, ipv4MinimumSize) THEN Continue("short") ELSE
    LET hl == headerLength(ipv4(p, Len(p))) IN
    IF ~Has(p, hl) THEN Continue("hdrlen") ELSE
    LET ipHdr == ipv4(p, hl)
        buf   == AfterConsume(p, hl)
    IN  IF ~protocolInRange(ipHdr) THEN Panic("protocol") ELSE
        IF transportProtocol(ipHdr) # udpProtocolNumber THEN Continue("proto") ELSE
        IF ~Has(buf, udpMinimumSize) THEN Continue("udphdr") ELSE
        MatchFrame(ipHdr, buf, bound)

-----------------------------------------------------------------------------
(* The frames the raw socket may deliver: every kind of frame the loop     *)
(* body tells apart.                                                       *)

IPv4Header(ihl, total, proto, src, dst) ==
    <<64 + ihl, 0>> \o PutUint16(total) \o <<0, 0, 0, 0, 64, proto, 0, 0>> \o src \o dst

UDPHeader(sport, dport, ulen) ==
    PutUint16(sport) \o PutUint16(dport) \o PutUint16(ulen) \o <<0, 0>>

\* a well-formed UDP datagram with 4*ihl-20 bytes of IP options, followed
\* by pad bytes of link padding
Datagram(ihl, src, dst, sport, dport, payload, pad) ==
    IPv4Header(ihl, 4 * ihl + udpMinimumSize + Len(payload), udpProtocolNumber, src, dst)
        \o Zeros(4 * ihl - ipv4MinimumSize)
        \o UDPHeader(sport, dport, udpMinimumSize + Len(payload))
        \o payload \o pad

IPServer == <<10, 0, 0, 1>>
IPClient == <<10, 0, 0, 5>>
IPOther == <<10, 0, 0, 6>>
IPClient16 == v4InV6Prefix \o IPClient
ServerPort == 67
ClientPort == 68

WellFormedFrames ==
    { Datagram(5, IPServer, IPClient, ServerPort, ClientPort, <<1, 2>>, <<>>),
      Datagram(5, IPServer, IPClient, ServerPort, ClientPort, <<1, 2>>, <<0, 0>>),
      Datagram(5, IPServer, IPOther, ServerPort, ClientPort, <<3, 4>>, <<>>),
      Datagram(5, IPServer, IPClient, ServerPort, ServerPort, <<5>>, <<>>),
      Datagram(6, IPServer, IPClient, ServerPort, ClientPort, <<6, 7>>, <<0>>),
      Datagram(15, IPServer, IPClient, ServerPort, ClientPort, <<8, 9>>, <<>>),
      Datagram(5, IPOther, IPClient, ClientPort, ClientPort, <<>>, <<>>) }

\* a UDP header and two bytes behind a 20-byte IP header with the given
\* header-length field and total length
Odd(ihl, total) ==
    IPv4Header(ihl, total, udpProtocolNumber, IPServer, IPClient)
        \o UDPHeader(ServerPort, ClientPort, 10) \o <<11, 12>>

MalformedFrames ==
    { \* shorter than the minimum IP header
      Take(Odd(5, 30), 19),
      \* declared header length beyond the bytes received
      Odd(15, 68),
      \* not UDP
      IPv4Header(5, 30, 6, IPServer, IPClient) \o UDPHeader(ServerPort, ClientPort, 10) \o <<11, 12>>,
      \* fewer than 8 bytes behind the IP header
      Take(Odd(5, 30), 27),
      \* header-length field below 5 words
      Odd(0, 30), Odd(2, 30), Odd(4, 30),
      IPv4Header(3, 22, udpProtocolNumber, <<0, ServerPort, 0, ClientPort>>, IPClient) \o <<13, 14>>,
      \* total length below header length plus 8, and below the header length
      Odd(5, 20), Odd(5, 27), Odd(5, 10),
      \* total length beyond the bytes received
      Odd(5, 40) }

Frames == WellFormedFrames \cup MalformedFrames

\* the errors a socket read or write may return
SocketErrors == {"ETIMEDOUT", "EBADF"}

BoundAddrs ==
    { NoAddr, UDPAddr(NilIP, ClientPort), UDPAddr(IPClient, ClientPort),
      UDPAddr(IPClient16, ClientPort) }

\* a caller's buffer of n bytes, none of them a byte of any frame
Fresh(n) == [i \in 1..n |-> 255]

NoRet == [n |-> 0, addr |-> NoAddr, err |-> "nil"]
NoWrite == [n |-> 0, err |-> "nil"]
NoDest == [isUDP |-> FALSE, IP |-> NilIP, Port |-> 0]
NoMac == <<>>
\* NeighListExecute, RouteGet and Resolve not called yet
NoNeigh == [called |-> FALSE, list |-> <<>>, err |-> "nil"]
NoRoutes == [called |-> FALSE, list |-> <<>>, err |-> "nil"]
NoArp == [called |-> FALSE, mac |-> NoMac, err |-> "nil"]
\* no WriteTo just before
NoPrev == [sent |-> FALSE, IP |-> NilIP, dstMac |-> NoMac, fns |-> <<>>]
\* udpMatch not applied
NoProbe == [applied |-> FALSE, addr |-> NoAddr, res |-> FALSE]

\* the locals and results of a call are gone when the next call starts
NoRead ==
    /\ b' = <<>>
    /\ pkt' = <<>>
    /\ delivered' = <<>>
    /\ rret' = NoRet

NoSend ==
    /\ wb' = <<>>
    /\ waddr' = NoDest
    /\ dstMac' = NoMac
    /\ routes' = NoRoutes
    /\ herr' = "nil"
    /\ calls' = <<>>
    /\ sock' = <<>>
    /\ wret' = NoWrite
    /\ neigh' = NoNeigh
    /\ arp' = NoArp

-----------------------------------------------------------------------------
(* ReadFrom. *)

\* line 111: the call, with a buffer of n bytes
ReadFrom(n) ==
    /\ pc \in {"idle", "done"}
    /\ pc' = "read"
    /\ b' = Fresh(n)
    /\ pkt' = <<>>
    /\ delivered' = <<>>
    /\ rret' = NoRet
    /\ NoSend
    /\ prev' = NoPrev
    /\ UNCHANGED <<typ, boundAddr, probe>>

\* the socket read fails and ReadFrom reports end of stream instead
SockReadErrAsEOF(e) ==
    /\ pc = "read"
    /\ Len(delivered) < MaxReads
    /\ delivered' = Append(delivered, [data |-> <<>>, err |-> e])
    /\ rret' = [n |-> 0, addr |-> NoAddr, err |-> "EOF"]
    /\ pc' = "done"
    /\ UNCHANGED <<typ, boundAddr, prev, probe, b, pkt, wvars>>

\* lines 116-120: the socket read fails
SockReadErr(e) ==
    /\ pc = "read"
    /\ Len(delivered) < MaxReads
    /\ delivered' = Append(delivered, [data |-> <<>>, err |-> e])
    /\ rret' = [n |-> 0, addr |-> NoAddr, err |-> e]
    /\ pc' = "done"
    /\ UNCHANGED <<typ, boundAddr, prev, probe, b, pkt, wvars>>

\* the socket read returns zero bytes and ReadFrom reads again
SockReadEOFRetry ==
    /\ pc = "read"
    /\ Len(delivered) < MaxReads
    /\ delivered' = Append(delivered, [data |-> <<>>, err |-> "nil"])
    /\ pc' = "read"
    /\ UNCHANGED <<typ, boundAddr, prev, probe, b, pkt, rret, wvars>>

\* lines 116-123: the socket read returns zero bytes and no error
SockReadEOF ==
    /\ pc = "read"
    /\ Len(delivered) < MaxReads
    /\ delivered' = Append(delivered, [data |-> <<>>, err |-> "nil"])
    /\ rret' = [n |-> 0, addr |-> NoAddr, err |-> "EOF"]
    /\ pc' = "done"
    /\ UNCHANGED <<typ, boundAddr, prev, probe, b, pkt, wvars>>

\* the size of the buffer ReadFrom reads a frame into (line 116)
PktSize(buf) == ipv4MaximumHeaderSize + udpMinimumSize + Len(buf)

\* lines 116-124: the socket delivers frame f, cut to the size of pkt
SockReadFrame(f) ==
    /\ pc = "read"
    /\ Len(delivered) < MaxReads
    /\ delivered' = Append(delivered, [data |-> f, err |-> "nil"])
    /\ pkt' = Take(f, Min(Len(f), PktSize(b)))
    /\ pc' = "frame"
    /\ UNCHANGED <<typ, boundAddr, prev, probe, b, rret, wvars>>

\* lines 128-156: the frame is dropped, back to the socket read
Discard(bound) ==
    /\ pc = "frame"
    /\ ReadFromFrame(pkt, bound).kind = "continue"
    /\ pc' = "read"
    /\ UNCHANGED <<typ, boundAddr, prev, probe, rvars, wvars>>

\* lines 140, 164: an index or a slice bound out of range
Crash(bound) ==
    /\ pc = "frame"
    /\ ReadFromFrame(pkt, bound).kind = "panic"
    /\ pc' = "panic"
    /\ UNCHANGED <<typ, boundAddr, prev, probe, rvars, wvars>>

\* a Unicast connection with a ReadFrom of its own, which hands the frame
\* over as the socket read it
DeliverByMode(bound) ==
    /\ pc = "frame"
    /\ LET r == ReadFromFrame(pkt, bound) IN
        /\ r.kind = "return"
        /\ b' = IF typ = UDPUnicast THEN Copy(b, pkt) ELSE Copy(b, r.data)
        /\ rret' = IF typ = UDPUnicast
                     THEN [n |-> CopyCount(b, pkt), addr |-> NoAddr, err |-> "nil"]
                     ELSE [n |-> CopyCount(b, r.data), addr |-> r.addr, err |-> "nil"]
    /\ pc' = "done"
    /\ UNCHANGED <<typ, boundAddr, prev, probe, pkt, delivered, wvars>>

\* lines 157-164: the payload is copied and returned
Deliver(bound) ==
    /\ pc = "frame"
    /\ LET r == ReadFromFrame(pkt, bound) IN
        /\ r.kind = "return"
        /\ b' = Copy(b, r.data)
        /\ rret' = [n |-> CopyCount(b, r.data), addr |-> r.addr, err |-> "nil"]
    /\ pc' = "done"
    /\ UNCHANGED <<typ, boundAddr, prev, probe, pkt, delivered, wvars>>

ReadNext ==
    \/ \E n \in 0..MaxBuf : ReadFrom(n)
    \/ \E e \in SocketErrors : SockReadErr(e)
    \/ SockReadEOF
    \/ \E f \in Frames : SockReadFrame(f)
    \/ Discard(boundAddr)
    \/ Crash(boundAddr)
    \/ Deliver(boundAddr)

-----------------------------------------------------------------------------
(* WriteTo: framing. *)

BroadcastMac == <<255, 255, 255, 255, 255, 255>>

ErrUDPAddrIsRequired == "must supply UDPAddr"
ErrHWAddrNotFound == "hardware address not found"

\* net.IP.To4
To4(ip) ==
    IF Len(ip) = 4 THEN ip
    ELSE IF Len(ip) = 16 /\ Take(ip, 12) = v4InV6Prefix THEN Drop(ip, 12)
    ELSE NilIP

\* the 4 bytes of an address field of the header: To4(ip) copied over zeroes
AddrField(ip) == Copy(Zeros(ipv4AddressSize), To4(ip))

\* the frame of payload packet from src to dest: a 20-byte IP header, the
\* UDP header, the payload; the checksums are left out of the model (zero),
\* no reader looks at them
udp4pkt(packet, dest, src) ==
    IPv4Header(5, ipv4MinimumSize + udpMinimumSize + Len(packet), udpProtocolNumber,
               AddrField(src.IP), AddrField(dest.IP))
        \o UDPHeader(src.Port, dest.Port, udpMinimumSize + Len(packet))
        \o packet

\* a net.Addr handed to WriteTo: a *net.UDPAddr or an address of another type
Dest(ip, port) == [isUDP |-> TRUE, IP |-> ip, Port |-> port]
OtherAddr == [isUDP |-> FALSE, IP |-> <<10, 0, 0, 1>>, Port |-> 0]
IPBroadcast == <<255, 255, 255, 255>>
IPv6Loopback == <<0, 0, 0, 0, 0, 0, 0, 0, 0, 0, 0, 0, 0, 0, 0, 1>>

Dests ==
    { OtherAddr, Dest(IPServer, ServerPort), Dest(IPBroadcast, ServerPort),
      Dest(NilIP, ServerPort), Dest(IPClient16, ClientPort),
      Dest(IPv6Loopback, ServerPort) }

Payloads == { <<>>, <<1, 2>>, <<7, 8, 9>> }

\* a dependency call, as the call log records it
Call(fn, arg) == [fn |-> fn, arg |-> arg]

-----------------------------------------------------------------------------
(* The environment of getHwAddr. *)

MacServer == <<2, 0, 0, 0, 0, 1>>
MacOther == <<2, 0, 0, 0, 0, 6>>

Neigh(ip, hw) == [IP |-> ip, HardwareAddr |-> hw]

\* snapshots of the reachable neighbours
NeighLists ==
    { <<>>,
      <<Neigh(IPServer, MacServer)>>,
      <<Neigh(IPServer, NoMac)>>,
      <<Neigh(IPOther, MacOther), Neigh(IPServer, MacServer)>>,
      <<Neigh(IPServer, NoMac), Neigh(IPServer, MacOther)>>,
      <<Neigh(IPBroadcast, MacOther)>> }

Route(ix) == [LinkIndex |-> ix]
RouteLists == { <<Route(2)>>, <<Route(3), Route(2)>> }

-----------------------------------------------------------------------------
(* WriteTo. *)

\* every connection takes the unicast WriteTo
UnicastConnAlways(t) == TRUE

\* every net.Addr passes for a *net.UDPAddr
IsUDPAddrAny(d) == TRUE

\* lines 67-71: the connection is a UnicastRawUDPConn exactly when typ is
\* UDPUnicast, and its WriteTo is then the one of lines 202-216
UnicastConn(t) == t = UDPUnicast

\* lines 174 and 203: addr.(*net.UDPAddr) succeeds
IsUDPAddr(d) == d.isUDP

\* the names of the dependency calls cs, in order
Fns(cs) == [i \in 1..Len(cs) |-> cs[i].fn]

\* a WriteTo that keeps the link address the call before resolved for the
\* same IP
WriteToCached(p, d) ==
    /\ pc \in {"idle", "done"}
    /\ boundAddr.present
    /\ wb' = p
    /\ waddr' = d
    /\ calls' = <<>>
    /\ sock' = <<>>
    /\ routes' = NoRoutes
    /\ herr' = "nil"
    /\ neigh' = NoNeigh
    /\ arp' = NoArp
    /\ prev' = IF waddr # NoDest
                 THEN [sent |-> TRUE, IP |-> waddr.IP, dstMac |-> dstMac, fns |-> Fns(calls)]
                 ELSE NoPrev
    /\ IF ~IsUDPAddr(d)
         THEN /\ wret' = [n |-> 0, err |-> ErrUDPAddrIsRequired]
              /\ dstMac' = NoMac
              /\ pc' = "done"
         ELSE IF UnicastConn(typ) /\ waddr.isUDP /\ waddr.IP = d.IP /\ dstMac # NoMac
         THEN /\ wret' = NoWrite
              /\ dstMac' = dstMac
              /\ pc' = "sockwrite"
         ELSE IF UnicastConn(typ)
         THEN /\ wret' = NoWrite
              /\ dstMac' = NoMac
              /\ pc' = "neigh"
         ELSE /\ wret' = NoWrite
              /\ dstMac' = BroadcastMac
              /\ pc' = "sockwrite"
    /\ NoRead
    /\ UNCHANGED <<typ, boundAddr, probe>>

\* lines 173-183 and 202-210: the call. The frame is built from the bound
\* address as source, so the call is modelled on connections that have one.
WriteTo(p, d) ==
    /\ pc \in {"idle", "done"}
    /\ boundAddr.present
    /\ wb' = p
    /\ waddr' = d
    /\ calls' = <<>>
    /\ sock' = <<>>
    /\ routes' = NoRoutes
    /\ herr' = "nil"
    /\ neigh' = NoNeigh
    /\ arp' = NoArp
    /\ prev' = IF waddr # NoDest
                 THEN [sent |-> TRUE, IP |-> waddr.IP, dstMac |-> dstMac, fns |-> Fns(calls)]
                 ELSE NoPrev
    /\ IF ~IsUDPAddr(d)
         THEN /\ wret' = [n |-> 0, err |-> ErrUDPAddrIsRequired]
              /\ dstMac' = NoMac
              /\ pc' = "done"
         ELSE IF UnicastConn(typ)
         THEN /\ wret' = NoWrite
              /\ dstMac' = NoMac
              /\ pc' = "neigh"
         ELSE /\ wret' = NoWrite
              /\ dstMac' = BroadcastMac
              /\ pc' = "sockwrite"
    /\ NoRead
    /\ UNCHANGED <<typ, boundAddr, probe>>

\* what the socket's WriteTo returns for packet: all of it written, or error e
SockResult(packet, ok, e) ==
    IF ok THEN [n |-> Len(packet), err |-> "nil"] ELSE [n |-> 0, err |-> e]

\* the socket write of line 215 with the link address of line 183
SockWriteBroadcast(ok, e) ==
    /\ pc = "sockwrite"
    /\ LET packet == udp4pkt(wb, waddr, boundAddr) IN
        /\ sock' = Append(sock, [packet |-> packet, hw |-> BroadcastMac, res |-> SockResult(packet, ok, e)])
        /\ calls' = Append(calls, Call("WriteTo", BroadcastMac))
        /\ wret' = SockResult(packet, ok, e)
    /\ pc' = "done"
    /\ UNCHANGED <<typ, boundAddr, prev, probe, rvars, wb, waddr, dstMac, routes, herr, neigh, arp>>

\* lines 183, 215: the frame goes to the socket, whose result is returned
SockWrite(ok, e) ==
    /\ pc = "sockwrite"
    /\ LET packet == udp4pkt(wb, waddr, boundAddr) IN
        /\ sock' = Append(sock, [packet |-> packet, hw |-> dstMac, res |-> SockResult(packet, ok, e)])
        /\ calls' = Append(calls, Call("WriteTo", dstMac))
        /\ wret' = SockResult(packet, ok, e)
    /\ pc' = "done"
    /\ UNCHANGED <<typ, boundAddr, prev, probe, rvars, wb, waddr, dstMac, routes, herr, neigh, arp>>

\* getHwAddr has returned (mac, err), and a failure falls back to broadcast
HwAddrResultFallback(mac, err) ==
    /\ herr' = err
    /\ wret' = wret
    /\ dstMac' = IF err # "nil" THEN BroadcastMac ELSE mac
    /\ pc' = "sockwrite"

\* lines 210-215: getHwAddr has returned (mac, err)
HwAddrResult(mac, err) ==
    /\ herr' = err
    /\ IF err # "nil"
         THEN /\ wret' = [n |-> 0, err |-> ErrHWAddrNotFound]
              /\ dstMac' = NoMac
              /\ pc' = "done"
         ELSE /\ wret' = wret
              /\ dstMac' = mac
              /\ pc' = "sockwrite"

\* the loop of lines 228-232 without the comparison of the IPs
FirstHitAnyIP(ip, list) ==
    LET hits == { i \in 1..Len(list) : list[i].HardwareAddr # NoMac }
    IN  IF hits = {} THEN 0 ELSE CHOOSE i \in hits : \A j \in hits : i <= j

\* lines 228-232: the index of the first neighbour with the IP and a
\* hardware address, 0 when there is none
FirstHit(ip, list) ==
    LET hits == { i \in 1..Len(list) :
                    IPEqual(ip, list[i].IP) /\ list[i].HardwareAddr # NoMac }
    IN  IF hits = {} THEN 0 ELSE CHOOSE i \in hits : \A j \in hits : i <= j

\* a failed enumeration taken for an empty snapshot
NeighListFailAsMiss ==
    /\ pc = "neigh"
    /\ calls' = Append(calls, Call("NeighListExecute", <<>>))
    /\ neigh' = [called |-> TRUE, list |-> <<>>, err |-> "ENETLINK"]
    /\ pc' = "route"
    /\ UNCHANGED <<typ, boundAddr, prev, probe, rvars, wb, waddr, dstMac, routes, herr, sock, wret, arp>>

\* lines 220-226: the neighbour table cannot be listed
NeighListFail ==
    /\ pc = "neigh"
    /\ calls' = Append(calls, Call("NeighListExecute", <<>>))
    /\ neigh' = [called |-> TRUE, list |-> <<>>, err |-> "ENETLINK"]
    /\ HwAddrResult(NoMac, neigh'.err)
    /\ UNCHANGED <<typ, boundAddr, prev, probe, rvars, wb, waddr, routes, sock, arp>>

\* lines 220-231: a neighbour of the list has the IP and a hardware address
NeighListHit(list) ==
    /\ pc = "neigh"
    /\ FirstHit(waddr.IP, list) # 0
    /\ calls' = Append(calls, Call("NeighListExecute", <<>>))
    /\ neigh' = [called |-> TRUE, list |-> list, err |-> "nil"]
    /\ HwAddrResult(list[FirstHit(waddr.IP, list)].HardwareAddr, "nil")
    /\ UNCHANGED <<typ, boundAddr, prev, probe, rvars, wb, waddr, routes, sock, arp>>

\* lines 220-234: no neighbour of the list has; on to arpResolve
NeighListMiss(list) ==
    /\ pc = "neigh"
    /\ FirstHit(waddr.IP, list) = 0
    /\ calls' = Append(calls, Call("NeighListExecute", <<>>))
    /\ neigh' = [called |-> TRUE, list |-> list, err |-> "nil"]
    /\ pc' = "route"
    /\ UNCHANGED <<typ, boundAddr, prev, probe, rvars, wb, waddr, dstMac, routes, herr, sock, wret, arp>>

\* lines 239-242: the route lookup fails
RouteGetFail(e) ==
    /\ pc = "route"
    /\ calls' = Append(calls, Call("RouteGet", waddr.IP))
    /\ routes' = [called |-> TRUE, list |-> <<>>, err |-> e]
    /\ HwAddrResult(NoMac, routes'.err)
    /\ UNCHANGED <<typ, boundAddr, prev, probe, rvars, wb, waddr, sock, neigh, arp>>

\* lines 239-245: the route lookup returns the routes rs; none is an error
RouteGet(rs) ==
    /\ pc = "route"
    /\ calls' = Append(calls, Call("RouteGet", waddr.IP))
    /\ routes' = [called |-> TRUE, list |-> rs, err |-> "nil"]
    /\ IF Len(rs) = 0
         THEN HwAddrResult(NoMac, "no route")
         ELSE pc' = "iface" /\ UNCHANGED <<dstMac, herr, wret>>
    /\ UNCHANGED <<typ, boundAddr, prev, probe, rvars, wb, waddr, sock, neigh, arp>>

\* the interface of the last route's link index
InterfaceByIndexLast(ok) ==
    /\ pc = "iface"
    /\ calls' = Append(calls, Call("InterfaceByIndex", <<routes.list[Len(routes.list)].LinkIndex>>))
    /\ IF ok
         THEN pc' = "dial" /\ UNCHANGED <<dstMac, herr, wret>>
         ELSE HwAddrResult(NoMac, "ENODEV")
    /\ UNCHANGED <<typ, boundAddr, prev, probe, rvars, wb, waddr, routes, sock, neigh, arp>>

\* lines 246-249: the interface of the first route's link index
InterfaceByIndex(ok) ==
    /\ pc = "iface"
    /\ calls' = Append(calls, Call("InterfaceByIndex", <<routes.list[1].LinkIndex>>))
    /\ IF ok
         THEN pc' = "dial" /\ UNCHANGED <<dstMac, herr, wret>>
         ELSE HwAddrResult(NoMac, "ENODEV")
    /\ UNCHANGED <<typ, boundAddr, prev, probe, rvars, wb, waddr, routes, sock, neigh, arp>>

\* lines 251-254: the ARP client on that interface
Dial(ok) ==
    /\ pc = "dial"
    /\ calls' = Append(calls, Call("Dial", <<routes.list[1].LinkIndex>>))
    /\ IF ok
         THEN pc' = "resolve" /\ UNCHANGED <<dstMac, herr, wret>>
         ELSE HwAddrResult(NoMac, "EPERM")
    /\ UNCHANGED <<typ, boundAddr, prev, probe, rvars, wb, waddr, routes, sock, neigh, arp>>

\* line 256: the ARP exchange answers mac, or fails
Resolve(ok, mac) ==
    /\ pc = "resolve"
    /\ calls' = Append(calls, Call("Resolve", waddr.IP))
    /\ arp' = IF ok THEN [called |-> TRUE, mac |-> mac, err |-> "nil"]
                    ELSE [called |-> TRUE, mac |-> NoMac, err |-> "ARPTIMEOUT"]
    /\ HwAddrResult(arp'.mac, arp'.err)
    /\ UNCHANGED <<typ, boundAddr, prev, probe, rvars, wb, waddr, routes, sock, neigh>>

WriteNext ==
    \/ \E p \in Payloads, d \in Dests : WriteTo(p, d)
    \/ \E ok \in BOOLEAN, e \in SocketErrors : SockWrite(ok, e)
    \/ NeighListFail
    \/ \E l \in NeighLists : NeighListHit(l)
    \/ \E l \in NeighLists : NeighListMiss(l)
    \/ \E e \in {"ENETUNREACH"} : RouteGetFail(e)
    \/ \E rs \in RouteLists \cup {<<>>} : RouteGet(rs)
    \/ \E ok \in BOOLEAN : InterfaceByIndex(ok)
    \/ \E ok \in BOOLEAN : Dial(ok)
    \/ \E ok \in BOOLEAN, mac \in {MacServer, MacOther} : Resolve(ok, mac)

-----------------------------------------------------------------------------
Init ==
    /\ typ \in {UDPBroadcast, UDPUnicast}
    /\ boundAddr \in BoundAddrs
    /\ pc = "idle"
    /\ b = <<>>
    /\ pkt = <<>>
    /\ delivered = <<>>
    /\ rret = NoRet
    /\ wb = <<>>
    /\ waddr = NoDest
    /\ dstMac = NoMac
    /\ routes = NoRoutes
    /\ herr = "nil"
    /\ calls = <<>>
    /\ sock = <<>>
    /\ wret = NoWrite
    /\ neigh = NoNeigh
    /\ arp = NoArp
    /\ prev = NoPrev
    /\ probe = NoProbe

Next == ReadNext \/ WriteNext

Spec == Init /\ [][Next]_vars

-----------------------------------------------------------------------------
(* A loopback link: what a Broadcast-mode connection writes to its socket   *)
(* is what the socket of a second connection, bound to the destination of  *)
(* the write, delivers. pc, b, pkt, delivered and rret are the second      *)
(* connection's once the write is done.                                    *)

\* the bound address of the reading connection
PeerAddr == UDPAddr(waddr.IP, waddr.Port)

\* line 111 on the reading connection, once a frame is on the link
PeerReadFrom(n) ==
    /\ pc = "done"
    /\ delivered = <<>>
    /\ sock # <<>>
    /\ wret.err = "nil"
    /\ pc' = "read"
    /\ b' = Fresh(n)
    /\ pkt' = <<>>
    /\ rret' = NoRet
    /\ UNCHANGED <<typ, boundAddr, prev, probe, delivered, wvars>>

\* lines 116-124: its socket delivers the frame on the link
PeerSockRead ==
    /\ delivered = <<>>
    /\ sock # <<>>
    /\ SockReadFrame(sock[1].packet)

\* lines 124-164 on the reading connection
PeerFrame ==
    /\ pc = "frame"
    /\ LET kind == ReadFromFrame(pkt, PeerAddr).kind IN
        IF kind = "continue" THEN Discard(PeerAddr)
        ELSE IF kind = "panic" THEN Crash(PeerAddr)
        ELSE Deliver(PeerAddr)

LoopInit ==
    /\ Init
    /\ typ = UDPBroadcast
    /\ boundAddr.present

LoopNext ==
    \/ \E p \in Payloads, d \in Dests : WriteTo(p, d)
    \/ \E ok \in BOOLEAN, e \in SocketErrors : SockWrite(ok, e)
    \/ \E n \in 0..(MaxBuf + 1) : PeerReadFrom(n)
    \/ PeerSockRead
    \/ PeerFrame

LoopSpec == LoopInit /\ [][LoopNext]_vars

-----------------------------------------------------------------------------
(* What a frame says of itself, read off its bytes as the wire format lays  *)
(* them out; the properties below compare ReadFrom's results with it.      *)

IHLOf(f) == f[1] % 16
HdrLenOf(f) == 4 * IHLOf(f)
TotalOf(f) == f[3] * 256 + f[4]

\* a well-formed UDP datagram, possibly followed by padding
IsDatagram(f) ==
    /\ Len(f) >= 20
    /\ IHLOf(f) >= 5
    /\ f[10] = 17
    /\ Len(f) >= HdrLenOf(f) + 8
    /\ TotalOf(f) >= HdrLenOf(f) + 8
    /\ TotalOf(f) <= Len(f)

DstOf(f) == UDPAddr(SubSeq(f, 17, 20), f[HdrLenOf(f) + 3] * 256 + f[HdrLenOf(f) + 4])
SrcOf(f) == UDPAddr(SubSeq(f, 13, 16), f[HdrLenOf(f) + 1] * 256 + f[HdrLenOf(f) + 2])
PayloadOf(f) == SubSeq(f, HdrLenOf(f) + 9, TotalOf(f))

\* the bound pattern's meaning: absent matches all, a nil IP matches any IP,
\* the port must be equal
Matches(addr, bound) ==
    \/ ~bound.present
    \/ /\ bound.Port = addr.Port
       /\ bound.IP = NilIP \/ IPEqual(bound.IP, addr.IP)

\* ReadFrom has returned a payload
Returned ==
    /\ pc = "done"
    /\ delivered # <<>>
    /\ rret.err = "nil"

LastFrame == delivered[Len(delivered)].data

\* the i-th socket read of the call returned a frame
IsFrame(i) == delivered[i].err = "nil" /\ delivered[i].data # <<>>

-----------------------------------------------------------------------------
(* C1: whenever ReadFrom returns a payload, the frame it comes from is     *)
(* addressed (IP destination, UDP destination port) to the bound pattern;  *)
(* a well-formed UDP frame that is not is never returned: the loop goes    *)
(* on to the next socket read.                                             *)
C1_Demultiplexing ==
    /\ Returned => Matches(DstOf(pkt), boundAddr)
    /\ \A i \in 1..Len(delivered) :
          ( /\ IsFrame(i)
            /\ IsDatagram(delivered[i].data)
            /\ ~Matches(DstOf(delivered[i].data), boundAddr) )
          => (i < Len(delivered) \/ pc \in {"frame", "read"})

\* a payload returned after a well-formed frame for another address was dropped
C1_Witness ==
    /\ Returned
    /\ Len(delivered) = 2
    /\ IsDatagram(delivered[1].data)
    /\ ~Matches(DstOf(delivered[1].data), boundAddr)
    /\ boundAddr.present

(* C2: ReadFrom returns on the first well-formed frame addressed to the    *)
(* bound pattern, whatever non-matching or malformed frames came before    *)
(* it, and returns that frame's payload bytes and sender; no frame before  *)
(* it ends the call.                                                       *)
C2_FirstMatch ==
    /\ pc # "panic"
    /\ Returned =>
         /\ IsDatagram(LastFrame)
         /\ Matches(DstOf(LastFrame), boundAddr)
         /\ rret.addr = SrcOf(LastFrame)
         /\ Take(b, rret.n) = Take(PayloadOf(LastFrame), rret.n)

(* C3: the payload of a matching frame is IP total length minus IP header  *)
(* length minus 8 bytes long, and ReadFrom copies and counts the first     *)
(* min(len(b), payload length) bytes of it. Stated here of the well-formed *)
(* datagrams alone, where total length and header length are consistent.   *)
C3_PayloadLength ==
    (Returned /\ IsDatagram(LastFrame)) =>
        LET plen == TotalOf(LastFrame) - HdrLenOf(LastFrame) - 8 IN
        /\ rret.n = Min(Len(b), plen)
        /\ Take(b, rret.n) = SubSeq(LastFrame, HdrLenOf(LastFrame) + 9,
                                    HdrLenOf(LastFrame) + 8 + rret.n)

IsIPv4(ip) == To4(ip) # NilIP

C5_UnicastUnreachable ==
    herr # "nil" =>
        /\ pc = "done"
        /\ wret = [n |-> 0, err |-> "hardware address not found"]
        /\ sock = <<>>
        /\ \A i \in 1..Len(calls) : calls[i].fn # "WriteTo"
        /\ dstMac # <<255, 255, 255, 255, 255, 255>>

\* the ARP exchange itself failed, after every stage before it succeeded
C5_Witness ==
    /\ typ = UDPUnicast
    /\ herr = "ARPTIMEOUT"
    /\ pc = "done"
    /\ Len(calls) = 5

C7_InvalidDestination ==
    (waddr # NoDest /\ ~waddr.isUDP) =>
        /\ pc = "done"
        /\ wret = [n |-> 0, err |-> "must supply UDPAddr"]
        /\ calls = <<>>
        /\ sock = <<>>
        /\ herr = "nil"

\* a Unicast-mode connection has rejected such a destination
C7_Witness ==
    /\ typ = UDPUnicast
    /\ waddr = OtherAddr
    /\ pc = "done"
    /\ wret.err = ErrUDPAddrIsRequired

(* C8: a socket read of zero bytes and no error is the last read of the    *)
(* call: ReadFrom has returned (0, nil, io.EOF), whatever it dropped       *)
(* before.                                                                 *)
C8_EndOfStream ==
    \A i \in 1..Len(delivered) :
        (delivered[i].err = "nil" /\ delivered[i].data = <<>>) =>
            /\ i = Len(delivered)
            /\ pc = "done"
            /\ rret = [n |-> 0, addr |-> NoAddr, err |-> "EOF"]

\* end of stream after a dropped frame
C8_Witness ==
    /\ Len(delivered) = 2
    /\ delivered[2] = [data |-> <<>>, err |-> "nil"]
    /\ rret.err = "EOF"

(* C9: a socket read that fails is the last read of the call: ReadFrom     *)
(* has returned (0, nil, that error), whatever it dropped before, and the  *)
(* caller's buffer is as it was.                                           *)
C9_ReadError ==
    \A i \in 1..Len(delivered) :
        delivered[i].err # "nil" =>
            /\ i = Len(delivered)
            /\ pc = "done"
            /\ rret = [n |-> 0, addr |-> NoAddr, err |-> delivered[i].err]
            /\ b = Fresh(Len(b))

\* a read error after a dropped frame, with a buffer to leave alone
C9_Witness ==
    /\ Len(delivered) = 2
    /\ delivered[2].err = "ETIMEDOUT"
    /\ rret.err = "ETIMEDOUT"
    /\ Len(b) = 2

\* a frame the claim calls malformed
C10Malformed(f) ==
    \/ Len(f) < 20
    \/ IHLOf(f) < 5
    \/ f[10] # 17
    \/ Len(f) < HdrLenOf(f) + 8

(* C10: a malformed frame (shorter than 20 bytes, header-length field      *)
(* below 5 words or beyond the frame, not UDP, fewer than 8 bytes behind   *)
(* the IP header) never ends the call: ReadFrom drops it and reads on.     *)
C10_MalformedSwallowed ==
    \A i \in 1..Len(delivered) :
        (IsFrame(i) /\ C10Malformed(delivered[i].data)) =>
            (i < Len(delivered) \/ pc \in {"frame", "read"})


\* the bytes of frame f that a read into buffer buf receives
Received(f, buf) == Min(Len(f), PktSize(buf))

(* C11: a frame whose declared IP header length (4 times the header-length *)
(* field) exceeds the number of bytes received never crashes ReadFrom and  *)
(* is never returned: it is dropped and the loop reads on.                 *)
C11_OversizedHeader ==
    \A i \in 1..Len(delivered) :
        (IsFrame(i) /\ HdrLenOf(delivered[i].data) > Received(delivered[i].data, b)) =>
            (i < Len(delivered) \/ pc \in {"frame", "read"})

\* a 30-byte frame declaring a 60-byte header was dropped and the loop read on
C11_Witness ==
    /\ Len(delivered) = 2
    /\ IsFrame(1)
    /\ Len(delivered[1].data) >= ipv4MinimumSize
    /\ HdrLenOf(delivered[1].data) > Received(delivered[1].data, b)
    /\ Returned


\* a UDP frame for the bound pattern whose total length is below header
\* length plus 8, or whose payload length goes beyond the bytes received
C12Inconsistent(f, buf) ==
    /\ Len(f) >= ipv4MinimumSize
    /\ IHLOf(f) >= 5
    /\ f[10] = udpProtocolNumber
    /\ Received(f, buf) >= HdrLenOf(f) + udpMinimumSize
    /\ Matches(DstOf(f), boundAddr)
    /\ \/ TotalOf(f) < HdrLenOf(f) + udpMinimumSize
       \/ TotalOf(f) > Received(f, buf)

(* C12: a matching frame whose IP total length is smaller than the header  *)
(* length plus 8, or whose payload length exceeds the bytes behind the UDP *)
(* header, never panics ReadFrom: the frame is dropped, or the call        *)
(* returns a payload of zero bytes.                                        *)
C12_InconsistentLength ==
    (/\ delivered # <<>>
     /\ IsFrame(Len(delivered))
     /\ C12Inconsistent(LastFrame, b)) =>
        /\ pc # "panic"
        /\ pc = "done" => rret.n = 0


-----------------------------------------------------------------------------
(* udpMatch on its own: applied once to an address and a bound pattern     *)
(* drawn from the nil, the 4-byte and the 16-byte forms of net.IP.         *)

MatchIPs == {NilIP, IPClient, IPClient16, IPOther, IPServer}
MatchPorts == {0, ServerPort, ClientPort}
MatchAddrs == { UDPAddr(ip, port) : ip \in MatchIPs, port \in MatchPorts }

MatchInit ==
    /\ typ = UDPBroadcast
    /\ boundAddr \in {NoAddr} \cup MatchAddrs
    /\ pc = "idle"
    /\ b = <<>>
    /\ pkt = <<>>
    /\ delivered = <<>>
    /\ rret = NoRet
    /\ wb = <<>>
    /\ waddr = NoDest
    /\ dstMac = NoMac
    /\ routes = NoRoutes
    /\ herr = "nil"
    /\ calls = <<>>
    /\ sock = <<>>
    /\ wret = NoWrite
    /\ neigh = NoNeigh
    /\ arp = NoArp
    /\ prev = NoPrev
    /\ probe \in { [applied |-> FALSE, addr |-> a, res |-> FALSE] : a \in MatchAddrs }

\* lines 97-105: udpMatch(addr, bound)
UdpMatch ==
    /\ ~probe.applied
    /\ probe' = [applied |-> TRUE, addr |-> probe.addr, res |-> udpMatch(probe.addr, boundAddr)]
    /\ UNCHANGED <<typ, boundAddr, pc, rvars, wvars, prev>>

MatchNext == UdpMatch

MatchSpec == MatchInit /\ [][MatchNext]_vars

(* C13: udpMatch(A, B) is true exactly when the pattern B is absent, or    *)
(* the ports of A and B are equal and the IP of B is nil or equal to the   *)
(* IP of A; a pattern never matches an address with a different port, and  *)
(* a pattern with a nil IP matches every IP on its port.                   *)
C13_BoundPattern ==
    probe.applied =>
        /\ probe.res <=>
             \/ ~boundAddr.present
             \/ /\ boundAddr.Port = probe.addr.Port
                /\ boundAddr.IP = NilIP \/ IPEqual(boundAddr.IP, probe.addr.IP)
        /\ (boundAddr.present /\ boundAddr.Port # probe.addr.Port) => ~probe.res
        /\ (boundAddr.present /\ boundAddr.IP = NilIP /\ boundAddr.Port = probe.addr.Port)
              => probe.res

\* the pattern's IP equals the address's in its other form, the ports differ
C13_Witness ==
    /\ probe.applied
    /\ boundAddr = UDPAddr(IPClient16, ClientPort)
    /\ probe.addr = UDPAddr(IPClient, ServerPort)
    /\ ~probe.res


-----------------------------------------------------------------------------
(* The resolver. *)

\* entry i of the neighbour snapshot has the target IP and a link address
CacheEntry(i) ==
    /\ IPEqual(waddr.IP, neigh.list[i].IP)
    /\ neigh.list[i].HardwareAddr # NoMac

\* the enumeration succeeded and the snapshot has such an entry
CacheHit ==
    /\ neigh.called
    /\ neigh.err = "nil"
    /\ \E i \in 1..Len(neigh.list) : CacheEntry(i)

\* the calls of the fallback chain
ChainFns == {"RouteGet", "InterfaceByIndex", "Dial", "Resolve"}

(* C14: when the neighbour snapshot has an entry with the target IP and a  *)
(* link address, getHwAddr returns the link address of the first such      *)
(* entry without error, and makes neither a route lookup nor an ARP        *)
(* exchange.                                                               *)
C14_FastPath ==
    CacheHit =>
        /\ herr = "nil"
        /\ \E i \in 1..Len(neigh.list) :
              /\ CacheEntry(i)
              /\ \A j \in 1..(i - 1) : ~CacheEntry(j)
              /\ dstMac = neigh.list[i].HardwareAddr
        /\ \A k \in 1..Len(calls) : calls[k].fn \notin ChainFns
        /\ ~arp.called
        /\ pc \in {"sockwrite", "done"}

\* the target's entry comes second in the snapshot and its address is returned
C14_Witness ==
    /\ CacheHit
    /\ Len(neigh.list) = 2
    /\ ~CacheEntry(1)
    /\ dstMac = MacServer
    /\ pc = "sockwrite"


\* the link address the resolver's dependencies supplied on success: the
\* first cache entry's, or else the ARP exchange's answer
Resolved ==
    IF CacheHit
      THEN neigh.list[CHOOSE i \in 1..Len(neigh.list) :
                         CacheEntry(i) /\ \A j \in 1..(i - 1) : ~CacheEntry(j)].HardwareAddr
      ELSE arp.mac

(* C15: on a Unicast connection the socket is written only after getHwAddr *)
(* has succeeded, exactly once in the call, to exactly the link address    *)
(* the resolver returned, and what WriteTo returns is the result of that   *)
(* socket write.                                                           *)
C15_UnicastSend ==
    (typ = UDPUnicast /\ sock # <<>>) =>
        /\ Len(sock) = 1
        /\ herr = "nil"
        /\ neigh.called
        /\ CacheHit \/ (arp.called /\ arp.err = "nil")
        /\ sock[1].hw = Resolved
        /\ sock[1].packet = udp4pkt(wb, waddr, boundAddr)
        /\ pc = "done"
        /\ wret = sock[1].res
        /\ { k \in 1..Len(calls) : calls[k].fn = "WriteTo" } = {Len(calls)}

\* a frame written to the address the ARP exchange answered, and the
\* socket's error returned
C15_Witness ==
    /\ typ = UDPUnicast
    /\ Len(sock) = 1
    /\ arp.called
    /\ sock[1].hw = MacOther
    /\ wret = [n |-> 0, err |-> "EBADF"]


\* the dependency calls of a Unicast WriteTo that misses the cache, in order
Chain == <<"NeighListExecute", "RouteGet", "InterfaceByIndex", "Dial", "Resolve", "WriteTo">>

\* the enumeration succeeded and the snapshot has no entry for the target
CacheMiss ==
    /\ neigh.called
    /\ neigh.err = "nil"
    /\ \A i \in 1..Len(neigh.list) : ~CacheEntry(i)

(* C16: on a cache miss the resolver calls the route lookup, then the      *)
(* interface lookup on the first route's link index, then opens the ARP    *)
(* session on that interface, then runs the exchange: in this order, each  *)
(* at most once and only after the stage before it succeeded.  The first   *)
(* failing stage ends the call with an error, an empty route list being    *)
(* the error "no route"; the exchange's answer or error is the result.     *)
C16_FallbackChain ==
    CacheMiss =>
        /\ Len(calls) <= Len(Chain)
        /\ Fns(calls) = Take(Chain, Len(calls))
        /\ pc \in {"route", "iface", "dial", "resolve", "sockwrite", "done"}
        /\ pc = "route" <=> Len(calls) = 1
        /\ pc = "iface" <=> (Len(calls) = 2 /\ herr = "nil")
        /\ pc = "dial" <=> (Len(calls) = 3 /\ herr = "nil")
        /\ pc = "resolve" <=> (Len(calls) = 4 /\ herr = "nil")
        /\ pc = "sockwrite" <=> (Len(calls) = 5 /\ herr = "nil")
        /\ herr # "nil" => (pc = "done" /\ Len(calls) \in 2..5)
        /\ routes.called <=> Len(calls) >= 2
        /\ (routes.called /\ routes.err # "nil") => (herr = routes.err /\ Len(calls) = 2)
        /\ (routes.called /\ routes.err = "nil" /\ routes.list = <<>>) =>
              (herr = "no route" /\ Len(calls) = 2)
        /\ Len(calls) >= 3 =>
              /\ routes.err = "nil" /\ routes.list # <<>>
              /\ calls[3].arg = <<routes.list[1].LinkIndex>>
        /\ Len(calls) >= 4 => calls[4].arg = calls[3].arg
        /\ arp.called <=> Len(calls) >= 5
        /\ arp.called => (herr = arp.err /\ (arp.err = "nil" => dstMac = arp.mac))

\* the exchange answered after a lookup that returned two routes
C16_Witness ==
    /\ CacheMiss
    /\ Len(routes.list) = 2
    /\ arp.called
    /\ dstMac = MacOther
    /\ pc = "sockwrite"


-----------------------------------------------------------------------------
(* IP options. *)

\* the frame f without its IP options: a header-length field of 5 words,
\* the total length less the options, and the bytes behind the header
StripOptions(f) ==
    <<64 + 5, f[2]>> \o PutUint16(TotalOf(f) - (HdrLenOf(f) - ipv4MinimumSize))
        \o SubSeq(f, 5, ipv4MinimumSize) \o Drop(f, HdrLenOf(f))

\* what the loop body makes of f without its options, read into the buffer b
WithoutOptions == ReadFromFrame(Take(StripOptions(LastFrame),
                                     Received(StripOptions(LastFrame), b)), boundAddr)

(* C17: a well-formed UDP frame with IP options (header-length field 6 to  *)
(* 15 words) is treated as the same frame without the options is: dropped  *)
(* when that one is dropped, and returned with the same sender address and *)
(* the same payload bytes and count when that one is returned.             *)
C17_OptionsSkipped ==
    (/\ delivered # <<>>
     /\ IsFrame(Len(delivered))
     /\ IsDatagram(LastFrame)
     /\ IHLOf(LastFrame) > 5
     /\ pc \in {"read", "done", "panic"}) =>
        /\ WithoutOptions.kind = "continue" => pc = "read"
        /\ WithoutOptions.kind = "return" =>
              /\ pc = "done"
              /\ rret.addr = WithoutOptions.addr
              /\ rret.n = Min(Len(b), Len(WithoutOptions.data))
              /\ Take(b, rret.n) = Take(WithoutOptions.data, rret.n)


-----------------------------------------------------------------------------
(* Consecutive sends. *)

(* C18: every Unicast WriteTo to a UDP address, whatever the send before   *)
(* it did, starts with its own neighbour enumeration, goes on to its own   *)
(* route lookup on a miss, and reaches the socket on a miss only after its *)
(* own full chain down to the ARP exchange: the calls it makes follow from *)
(* the answers it gets, not from the earlier send.                         *)
C18_NoCaching ==
    (typ = UDPUnicast /\ waddr.isUDP) =>
        /\ pc = "neigh" <=> calls = <<>>
        /\ pc = "neigh" <=> ~neigh.called
        /\ calls # <<>> => calls[1].fn = "NeighListExecute"
        /\ (neigh.called /\ neigh.err # "nil") => Fns(calls) = Take(Chain, 1)
        /\ CacheHit => Fns(calls) \in {Take(Chain, 1), <<"NeighListExecute", "WriteTo">>}
        /\ CacheMiss =>
              /\ pc = "route" \/ (Len(calls) >= 2 /\ calls[2].fn = "RouteGet")
              /\ (herr = "nil" /\ pc \in {"sockwrite", "done"}) =>
                    (Take(Fns(calls), 5) = Take(Chain, 5) /\ arp.called)

\* the send before resolved the same IP by an ARP exchange, and this one
\* has run its own exchange
C18_Witness ==
    /\ typ = UDPUnicast
    /\ prev.sent
    /\ waddr.isUDP
    /\ prev.IP = waddr.IP
    /\ prev.dstMac = MacServer
    /\ prev.fns = Chain
    /\ Fns(calls) = Chain
    /\ dstMac = MacOther


(* C19: when the neighbour enumeration fails, getHwAddr ends with that     *)
(* error and makes neither a route lookup nor an ARP exchange; the         *)
(* fallback chain runs only after an enumeration that succeeded and had no *)
(* entry with the target IP and a link address.                            *)
C19_EnumerationFailure ==
    /\ (neigh.called /\ neigh.err # "nil") =>
          /\ herr = neigh.err
          /\ pc = "done"
          /\ Fns(calls) = <<"NeighListExecute">>
          /\ ~routes.called
          /\ ~arp.called
          /\ sock = <<>>
    /\ (routes.called \/ arp.called \/ \E k \in 1..Len(calls) : calls[k].fn \in ChainFns)
          => CacheMiss

\* the enumeration has failed and the call is over
C19_Witness ==
    /\ neigh.called
    /\ neigh.err = "ENETLINK"
    /\ herr = "ENETLINK"
    /\ wret.err = "hardware address not found"


-----------------------------------------------------------------------------
(* The two modes. NewRawUDPConn takes any UDPConnType: UDPUnicast makes a  *)
(* UnicastRawUDPConn, every other value a BroadcastRawUDPConn.             *)

OtherConnType == 2
UDPConnTypes == {UDPBroadcast, UDPUnicast, OtherConnType}

ModeInit ==
    /\ typ \in UDPConnTypes
    /\ boundAddr \in BoundAddrs
    /\ pc = "idle"
    /\ b = <<>>
    /\ pkt = <<>>
    /\ delivered = <<>>
    /\ rret = NoRet
    /\ wb = <<>>
    /\ waddr = NoDest
    /\ dstMac = NoMac
    /\ routes = NoRoutes
    /\ herr = "nil"
    /\ calls = <<>>
    /\ sock = <<>>
    /\ wret = NoWrite
    /\ neigh = NoNeigh
    /\ arp = NoArp
    /\ prev = NoPrev
    /\ probe = NoProbe

ModeSpec == ModeInit /\ [][Next]_vars

\* what BroadcastRawUDPConn.ReadFrom does with the socket reads ds from the
\* i-th on, a buffer of n bytes and the bound pattern: still reading,
\* crashed, or returned (buf, ret)
RECURSIVE BroadcastRead(_, _, _, _)
BroadcastRead(ds, i, n, bound) ==
    IF i > Len(ds) THEN [at |-> "read", buf |-> Fresh(n), ret |-> NoRet]
    ELSE IF ds[i].err # "nil"
      THEN [at |-> "done", buf |-> Fresh(n),
            ret |-> [n |-> 0, addr |-> NoAddr, err |-> ds[i].err]]
    ELSE IF ds[i].data = <<>>
      THEN [at |-> "done", buf |-> Fresh(n),
            ret |-> [n |-> 0, addr |-> NoAddr, err |-> "EOF"]]
    ELSE LET r == ReadFromFrame(Take(ds[i].data, Min(Len(ds[i].data), PktSize(Fresh(n)))),
                                bound)
         IN  IF r.kind = "continue" THEN BroadcastRead(ds, i + 1, n, bound)
             ELSE IF r.kind = "panic" THEN [at |-> "panic", buf |-> Fresh(n), ret |-> NoRet]
             ELSE [at |-> "done", buf |-> Copy(Fresh(n), r.data),
                   ret |-> [n |-> CopyCount(Fresh(n), r.data), addr |-> r.addr,
                            err |-> "nil"]]

\* a ReadFrom call of the connection stands where the Broadcast ReadFrom
\* stands after the same socket reads, with the same buffer and result
C20Reads ==
    (/\ pc \in {"read", "done", "panic"}
     /\ pc = "done" => delivered # <<>>
     /\ sock = <<>> /\ waddr = NoDest) =>
        LET r == BroadcastRead(delivered, 1, Len(b), boundAddr) IN
            /\ pc = r.at
            /\ b = r.buf
            /\ rret = r.ret

\* the resolver runs on the Unicast connection only, and every other
\* connection writes to the broadcast address
C20Mode ==
    /\ pc \in {"neigh", "route", "iface", "dial", "resolve"} => typ = UDPUnicast
    /\ (typ # UDPUnicast /\ waddr.isUDP) =>
          /\ neigh = NoNeigh
          /\ \A k \in 1..Len(sock) : sock[k].hw = BroadcastMac
    /\ (typ = UDPUnicast /\ waddr.isUDP /\ pc = "done") => neigh.called

(* C20: whatever its mode, a connection's ReadFrom gives, for the same     *)
(* bound pattern, buffer and socket reads, the results the Broadcast       *)
(* ReadFrom gives; the connection sends as a Unicast connection exactly    *)
(* when it was made with UDPUnicast, and no operation changes its mode.    *)
C20_ModesDifferInSend ==
    /\ [](C20Reads /\ C20Mode)
    /\ [][typ' = typ]_vars

\* a Unicast connection has dropped a frame and returned the next one's payload
C20_Witness ==
    /\ typ = UDPUnicast
    /\ Returned
    /\ Len(delivered) = 2
    /\ IsFrame(1)
    /\ rret.n = 2
    /\ rret.addr = UDPAddr(IPServer, ServerPort)

=============================================================================
